---- MODULE Spec2Model ----
(***************************************************************************)
(* Model of the recipe request handler of netlify/functions/generate.mts   *)
(* (the default export, lines 10-120).  One behaviour is one invocation:   *)
(* Init draws the inbound request and the environment, the actions are the *)
(* numbered steps of the handler, and the generation API is the            *)
(* environment action FetchSettles.  The file's second handler (lines      *)
(* 141-219, the older calling convention) cleans the text with the same    *)
(* expression (line 209); its other steps are not modelled.                *)
(***************************************************************************)
EXTENDS Naturals, Sequences, FiniteSets

\* Bound: a generated text is a concatenation of at most MaxPieces pieces.
MaxPieces == 4

-----------------------------------------------------------------------------
(* JavaScript values, as far as the handler distinguishes them *)

Undefined == "<undefined>"
EmptyStr  == "<empty string>"
\* an object such as {"toString": 0}: JSON.parse yields it, ToString throws on it
BadObject == "<object with no callable toString>"

IngredientValues == {Undefined, EmptyStr, "eggs", BadObject}
LangValues       == {Undefined, "fr", BadObject}

\* !v
Falsy(v) == v \in {Undefined, EmptyStr}

\* ${v} in a template literal throws a TypeError
ToStringThrows(v) == v = BadObject

Methods == {"OPTIONS", "POST", "GET", "DELETE"}

\* Netlify.env.get('GEMINI_API_KEY'): undefined when unset
KeyValues == {Undefined, "secret"}

\* What req.json() makes of the request body.
\*   malformed: rejects (SyntaxError);  null: the JSON value null;
\*   scalar: a JSON number, string, boolean or array without the fields;
\*   object: a JSON object.
ReqBodies ==
    {[kind |-> k, ingredients |-> Undefined, lang |-> Undefined] :
        k \in {"malformed", "null", "scalar"}}
    \cup
    {[kind |-> "object", ingredients |-> i, lang |-> l] :
        i \in IngredientValues, l \in LangValues}

headers ==
    { <<"Access-Control-Allow-Origin", "*">>,
      <<"Access-Control-Allow-Methods", "POST, OPTIONS">>,
      <<"Access-Control-Allow-Headers", "Content-Type">>,
      <<"Content-Type", "application/json">> }

-----------------------------------------------------------------------------
(* Texts: sequences of one-character strings *)

\* The grave accent (U+0060), which a string of this language cannot hold.
Backtick == "U+0060"

FenceJson == <<Backtick, Backtick, Backtick, "j", "s", "o", "n">>
Fence     == <<Backtick, Backtick, Backtick>>

Pieces == {FenceJson, Fence, <<"\n">>, <<"[">>, <<"]">>, <<"1">>}

RECURSIVE TextsUpTo(_)
TextsUpTo(n) ==
    IF n = 0 THEN {<<>>}
    ELSE LET shorter == TextsUpTo(n - 1)
         IN  shorter \cup {t \o p : t \in shorter, p \in Pieces}

Texts == TextsUpTo(MaxPieces)

WhiteSpace == {" ", "\n", "\t", "\r"}

IsPrefix(p, s) == Len(p) <= Len(s) /\ SubSeq(s, 1, Len(p)) = p

Drop(s, n) == SubSeq(s, n + 1, Len(s))

\* s.replace(/(3 backticks)json|(3 backticks)/g, ''): every match, left to
\* right, the longer alternative first
RECURSIVE ReplaceFences(_)
ReplaceFences(s) ==
    IF s = <<>> THEN <<>>
    ELSE IF IsPrefix(FenceJson, s) THEN ReplaceFences(Drop(s, Len(FenceJson)))
    ELSE IF IsPrefix(Fence, s) THEN ReplaceFences(Drop(s, Len(Fence)))
    ELSE <<Head(s)>> \o ReplaceFences(Tail(s))

RECURSIVE TrimStart(_)
TrimStart(s) ==
    IF s # <<>> /\ Head(s) \in WhiteSpace THEN TrimStart(Tail(s)) ELSE s

RECURSIVE TrimEnd(_)
TrimEnd(s) ==
    IF s # <<>> /\ s[Len(s)] \in WhiteSpace
    THEN TrimEnd(SubSeq(s, 1, Len(s) - 1))
    ELSE s

\* String.prototype.trim
Trim(s) == TrimEnd(TrimStart(s))

\* candidateText.replace(/(3 backticks)json|(3 backticks)/g, '').trim()
cleanJson(candidateText) == Trim(ReplaceFences(candidateText))

-----------------------------------------------------------------------------
(* JSON.parse, as a recogniser of the JSON grammar over the characters the *)
(* texts are made of: white space, digits, brackets and commas.  Any other *)
(* character (a backtick, a letter of json)   starts no JSON value.        *)

Digits == {"0", "1", "2", "3", "4", "5", "6", "7", "8", "9"}

RECURSIVE SkipWs(_, _)
SkipWs(s, i) ==
    IF i <= Len(s) /\ s[i] \in WhiteSpace THEN SkipWs(s, i + 1) ELSE i

RECURSIVE SkipDigits(_, _)
SkipDigits(s, i) ==
    IF i <= Len(s) /\ s[i] \in Digits THEN SkipDigits(s, i + 1) ELSE i

\* The position after the value starting at i, or 0 when none starts there.
RECURSIVE ParseValue(_, _)
RECURSIVE ParseElements(_, _)
ParseValue(s, i) ==
    IF i > Len(s) THEN 0
    ELSE IF s[i] = "[" THEN
        LET j == SkipWs(s, i + 1)
        IN  IF j > Len(s) THEN 0
            ELSE IF s[j] = "]" THEN j + 1
            ELSE ParseElements(s, j)
    ELSE IF s[i] = "0" THEN i + 1
    ELSE IF s[i] \in Digits THEN SkipDigits(s, i)
    ELSE 0

ParseElements(s, i) ==
    LET j == ParseValue(s, i)
        k == SkipWs(s, j)
    IN  IF j = 0 \/ k > Len(s) THEN 0
        ELSE IF s[k] = "]" THEN k + 1
        ELSE IF s[k] = "," THEN ParseElements(s, SkipWs(s, k + 1))
        ELSE 0

\* JSON.parse(text) returns (does not throw)
JsonParses(text) ==
    LET j == ParseValue(text, SkipWs(text, 1))
    IN  j # 0 /\ SkipWs(text, j) = Len(text) + 1

-----------------------------------------------------------------------------
(* The generation API's reply to the one outbound call *)

Statuses == {200, 429, 503}

\* apiResponse.ok
Ok(status) == status >= 200 /\ status <= 299

UpstreamMessage == "quota exceeded"

\* fetch : rejected (network failure) or resolved with an HTTP response
\* body  : what apiResponse.json() makes of the response body
\*           undecodable: rejects;  null, scalar: JSON values that are no object;
\*           object: a JSON object
\* error : the object's error field: absent, {"message": "quota exceeded"},
\*         or an error object without a message
\* text  : candidates[0].content.parts[0].text: absent, a number, or a string
Reply(f, st, b, e, tk, t) ==
    [fetch |-> f, status |-> st, body |-> b, error |-> e, textKind |-> tk, text |-> t]

Replies ==
    {Reply("rejected", 0, "none", "absent", "absent", <<>>)}
    \cup
    {Reply("resolved", st, b, "absent", "absent", <<>>) :
        st \in Statuses, b \in {"undecodable", "null", "scalar"}}
    \cup
    {Reply("resolved", st, "object", e, tk, <<>>) :
        st \in Statuses, e \in {"absent", "message", "nomessage"},
        tk \in {"absent", "number"}}
    \cup
    {Reply("resolved", st, "object", e, "string", t) :
        st \in Statuses, e \in {"absent", "message", "nomessage"}, t \in Texts}

NoReply == Reply("none", 0, "none", "absent", "absent", <<>>)

-----------------------------------------------------------------------------
(* Responses *)

NoField == "<no field>"

NoResponse ==
    [status |-> 0, headers |-> {}, error |-> NoField, details |-> NoField, body |-> <<>>]

\* new Response(JSON.stringify({error, details?, message}), {status, headers})
ErrorResponse(status, error, details) ==
    [status |-> status, headers |-> headers, error |-> error, details |-> details,
     body |-> <<>>]

\* new Response(text, {status, headers})
TextResponse(status, text) ==
    [status |-> status, headers |-> headers, error |-> NoField, details |-> NoField,
     body |-> text]

\* the catch block of lines 112-119
ProcessingError(message) == ErrorResponse(500, "Processing Error", message)

-----------------------------------------------------------------------------
VARIABLES
    pc,           \* the handler's position
    method,       \* req.method
    envKey,       \* the environment's GEMINI_API_KEY
    reqBody,      \* the request body, as req.json() sees it
    keyRead,      \* Netlify.env.get was called
    bodyRead,     \* req.json() was called
    ingredients,  \* let ingredients
    lang,         \* let lang
    prompt,       \* const prompt
    fetchCalls,   \* number of calls of fetch
    fetchState,   \* "idle", "inflight" or "settled"
    reply,        \* the reply the call settled with
    cleaned,      \* const cleanJson
    response,     \* the Response returned
    returned      \* number of responses returned

vars == <<pc, method, envKey, reqBody, keyRead, bodyRead, ingredients, lang, prompt,
          fetchCalls, fetchState, reply, cleaned, response, returned>>

request  == <<method, envKey, reqBody>>
locals   == <<ingredients, lang, prompt, cleaned>>
upstream == <<fetchCalls, fetchState, reply>>

Init ==
    /\ pc = "preflight"
    /\ method \in Methods
    /\ envKey \in KeyValues
    /\ reqBody \in ReqBodies
    /\ keyRead = FALSE
    /\ bodyRead = FALSE
    /\ ingredients = Undefined
    /\ lang = Undefined
    /\ prompt = <<>>
    /\ fetchCalls = 0
    /\ fetchState = "idle"
    /\ reply = NoReply
    /\ cleaned = <<>>
    /\ response = NoResponse
    /\ returned = 0

\* return r
Return(r) ==
    /\ response' = r
    /\ returned' = returned + 1
    /\ pc' = "done"

Goto(label) ==
    /\ pc' = label
    /\ UNCHANGED <<response, returned>>

\* Mutant of Preflight: OPTIONS is not answered first.
PreflightFallsThrough ==
    /\ pc = "preflight"
    /\ Goto("keyCheck")
    /\ UNCHANGED <<request, keyRead, bodyRead, locals, upstream>>

\* Handle Preflight OPTIONS request
Preflight ==
    /\ pc = "preflight"
    /\ IF method = "OPTIONS"
       THEN Return(TextResponse(200, <<>>))
       ELSE Goto("keyCheck")
    /\ UNCHANGED <<request, keyRead, bodyRead, locals, upstream>>

\* Mutant of KeyCheck: the key is read and not tested.
KeyCheckNotTested ==
    /\ pc = "keyCheck"
    /\ keyRead' = TRUE
    /\ Goto("methodCheck")
    /\ UNCHANGED <<request, bodyRead, locals, upstream>>

\* 2. Key Check
KeyCheck ==
    /\ pc = "keyCheck"
    /\ keyRead' = TRUE
    /\ IF Falsy(envKey)
       THEN Return(ErrorResponse(500, "Configuration Error", NoField))
       ELSE Goto("methodCheck")
    /\ UNCHANGED <<request, bodyRead, locals, upstream>>

\* Mutant of MethodCheck: only GET is refused.
MethodCheckRefusesGetOnly ==
    /\ pc = "methodCheck"
    /\ IF method = "GET"
       THEN Return(ErrorResponse(405, "Method Not Allowed", NoField))
       ELSE Goto("readBody")
    /\ UNCHANGED <<request, keyRead, bodyRead, locals, upstream>>

\* 3. Method Check
MethodCheck ==
    /\ pc = "methodCheck"
    /\ IF method # "POST"
       THEN Return(ErrorResponse(405, "Method Not Allowed", NoField))
       ELSE Goto("readBody")
    /\ UNCHANGED <<request, keyRead, bodyRead, locals, upstream>>

\* 4. Read data from the frontend.  req.json() rejects on a malformed body;
\* body.ingredients throws a TypeError on null; both land in the catch.
ReadBody ==
    /\ pc = "readBody"
    /\ bodyRead' = TRUE
    /\ IF reqBody.kind \in {"malformed", "null"}
       THEN /\ Return(ErrorResponse(400, "Invalid JSON body", NoField))
            /\ UNCHANGED <<ingredients, lang>>
       ELSE /\ ingredients' = reqBody.ingredients
            /\ lang' = IF Falsy(reqBody.lang) THEN "ar" ELSE reqBody.lang
            /\ IF Falsy(reqBody.ingredients)
               THEN Return(ErrorResponse(400, "Missing required field: ingredients",
                                         NoField))
               ELSE Goto("buildPrompt")
    /\ UNCHANGED <<request, keyRead, prompt, cleaned, upstream>>

\* 5. Build the Prompt.  The template literal converts ingredients and lang
\* to strings outside any try block: a TypeError here leaves the handler.
BuildPrompt ==
    /\ pc = "buildPrompt"
    /\ IF ToStringThrows(ingredients) \/ ToStringThrows(lang)
       THEN /\ Goto("thrown")
            /\ UNCHANGED prompt
       ELSE /\ prompt' = <<ingredients, lang>>
            /\ Goto("callApi")
    /\ UNCHANGED <<request, keyRead, bodyRead, ingredients, lang, cleaned, upstream>>

\* 6. Call the Gemini API: fetch is called and the handler suspends on it.
CallApi ==
    /\ pc = "callApi"
    /\ fetchCalls' = fetchCalls + 1
    /\ fetchState' = "inflight"
    /\ Goto("awaitFetch")
    /\ UNCHANGED <<request, keyRead, bodyRead, locals, reply>>

\* The generation API (or the network) settles the call.
FetchSettles ==
    /\ fetchState = "inflight"
    /\ \E r \in Replies : reply' = r
    /\ fetchState' = "settled"
    /\ UNCHANGED <<pc, response, returned, request, keyRead, bodyRead, locals,
                   fetchCalls>>

\* await fetch(...) resumes: a rejection is caught, otherwise
\* apiResponse.json() is awaited, whose rejection is caught as well.
DecodeReply ==
    /\ pc = "awaitFetch"
    /\ fetchState = "settled"
    /\ IF reply.fetch = "rejected"
       THEN Return(ProcessingError("fetch failed"))
       ELSE IF reply.body = "undecodable"
       THEN Return(ProcessingError("Unexpected token"))
       ELSE Goto("checkUpstream")
    /\ UNCHANGED <<request, keyRead, bodyRead, locals, upstream>>

\* responseJson.error is truthy
HasError(r) == r.body = "object" /\ r.error # "absent"

\* responseJson.error?.message || "Unknown error"
ErrorDetails(r) ==
    IF r.body = "object" /\ r.error = "message" THEN UpstreamMessage
    ELSE "Unknown error"

\* 7. if (!apiResponse.ok || responseJson.error).  On a null responseJson
\* the property access throws a TypeError, which the catch turns into a
\* Processing Error.
CheckUpstream ==
    /\ pc = "checkUpstream"
    /\ IF reply.body = "null"
       THEN Return(ProcessingError("Cannot read properties of null"))
       ELSE IF ~Ok(reply.status) \/ HasError(reply)
       THEN Return(ErrorResponse(IF reply.status = 0 THEN 500 ELSE reply.status,
                                 "Gemini API failed", ErrorDetails(reply)))
       ELSE Goto("extract")
    /\ UNCHANGED <<request, keyRead, bodyRead, locals, upstream>>

\* responseJson.candidates?.[0]?.content?.parts?.[0]?.text is falsy
NoCandidateText(r) ==
    \/ r.body # "object"
    \/ r.textKind = "absent"
    \/ r.textKind = "string" /\ r.text = <<>>

\* 8. Extract the text and clean it.  A text that is no string has no
\* replace method: TypeError, caught.
ExtractAndClean ==
    /\ pc = "extract"
    /\ IF NoCandidateText(reply)
       THEN /\ Return(ProcessingError("No content generated"))
            /\ UNCHANGED cleaned
       ELSE IF reply.textKind # "string"
       THEN /\ Return(ProcessingError("candidateText.replace is not a function"))
            /\ UNCHANGED cleaned
       ELSE /\ cleaned' = cleanJson(reply.text)
            /\ Goto("validate")
    /\ UNCHANGED <<request, keyRead, bodyRead, ingredients, lang, prompt, upstream>>

\* Mutant of Validate: the cleaned text is returned without JSON.parse.
ValidateNotParsed ==
    /\ pc = "validate"
    /\ Return(TextResponse(200, cleaned))
    /\ UNCHANGED <<request, keyRead, bodyRead, locals, upstream>>

\* 9, 10. JSON.parse(cleanJson); return new Response(cleanJson, 200)
Validate ==
    /\ pc = "validate"
    /\ IF JsonParses(cleaned)
       THEN Return(TextResponse(200, cleaned))
       ELSE Return(ProcessingError("Unexpected token"))
    /\ UNCHANGED <<request, keyRead, bodyRead, locals, upstream>>

Next ==
    \/ Preflight
    \/ KeyCheck
    \/ MethodCheck
    \/ ReadBody
    \/ BuildPrompt
    \/ CallApi
    \/ FetchSettles
    \/ DecodeReply
    \/ CheckUpstream
    \/ ExtractAndClean
    \/ Validate

Spec == Init /\ [][Next]_vars

-----------------------------------------------------------------------------
(* Properties *)

Done == pc = "done"

\* the invocation is over: a response was returned or an exception escaped
Ended == pc \in {"done", "thrown"}

KeyConfigured == ~Falsy(envKey)

\* req.json() resolves: the body is JSON text
BodyIsJson == reqBody.kind # "malformed"

\* the parsed body has no ingredients, or an empty one
IngredientsMissing == reqBody.ingredients \in {Undefined, EmptyStr}

IsError(r, status, category) ==
    /\ r.status = status
    /\ r.error = category
    /\ r.headers = headers

\* C1, as claimed: a method other than POST and OPTIONS is answered 405
\* "Method Not Allowed", whatever the body and whether or not the key is set.
C1_AnyKey ==
    (Done /\ method \notin {"POST", "OPTIONS"})
        => IsError(response, 405, "Method Not Allowed")

\* C1, amended: with the key configured, a method other than POST and OPTIONS
\* is answered 405 "Method Not Allowed" whatever the body, which is never
\* read; with the key absent the answer is 500 "Configuration Error".
C1_MethodNotAllowed ==
    (Done /\ method \notin {"POST", "OPTIONS"})
        => /\ ~bodyRead
           /\ fetchCalls = 0
           /\ IF KeyConfigured
              THEN IsError(response, 405, "Method Not Allowed")
              ELSE IsError(response, 500, "Configuration Error")

C1_Witness ==
    /\ Done
    /\ method = "DELETE"
    /\ KeyConfigured
    /\ reqBody.kind = "malformed"
    /\ response.status = 405

\* C2: with the key absent, a POST is answered 500 "Configuration Error"
\* whatever its body, the body is not read and fetch is never called.
C2_ConfigurationError ==
    (method = "POST" /\ ~KeyConfigured)
        => /\ fetchCalls = 0
           /\ fetchState = "idle"
           /\ ~bodyRead
           /\ pc \in {"preflight", "keyCheck", "done"}
           /\ Done => IsError(response, 500, "Configuration Error")

C2_Witness ==
    /\ Done
    /\ method = "POST"
    /\ ~KeyConfigured
    /\ reqBody.kind = "object"
    /\ reqBody.ingredients = "eggs"
    /\ response.status = 500

\* C3: with the key configured, a POST whose body is JSON with ingredients
\* missing or empty is answered 400 "Missing required field", a POST whose
\* body is no JSON is answered 400 "Invalid JSON body", and fetch is called
\* in neither case.
C3_BodyErrors ==
    (Done /\ method = "POST" /\ KeyConfigured)
        => /\ (BodyIsJson /\ IngredientsMissing)
                => /\ IsError(response, 400, "Missing required field: ingredients")
                   /\ fetchCalls = 0
           /\ ~BodyIsJson
                => /\ IsError(response, 400, "Invalid JSON body")
                   /\ fetchCalls = 0

\* C4: an OPTIONS request is answered 200 with an empty body and the CORS
\* headers, whatever its body and the key, and nothing else is done: the key
\* is not read, the body is not read, fetch is not called.
C4_Preflight ==
    method = "OPTIONS"
        => /\ pc \in {"preflight", "done"}
           /\ ~keyRead
           /\ ~bodyRead
           /\ fetchCalls = 0
           /\ Done => response = TextResponse(200, <<>>)

C4_Witness ==
    /\ Done
    /\ method = "OPTIONS"
    /\ ~KeyConfigured
    /\ reqBody.kind = "malformed"
    /\ response.status = 200
    /\ response.body = <<>>

\* the generation API answered with a non-success status
UpstreamNotOk == reply.fetch = "resolved" /\ ~Ok(reply.status)

\* the decoded upstream body carries an error field
UpstreamErrorField ==
    reply.fetch = "resolved" /\ reply.body = "object" /\ reply.error # "absent"

\* C5: when the upstream status is no success status, or the decoded upstream
\* body carries an error field, the answer is "Gemini API failed" with the
\* upstream status and, as details, the upstream error message, or
\* "Unknown error" when there is none.
C5_UpstreamError ==
    (Done /\ (UpstreamNotOk \/ UpstreamErrorField))
        => /\ IsError(response, reply.status, "Gemini API failed")
           /\ response.details =
                IF UpstreamErrorField /\ reply.error = "message"
                THEN UpstreamMessage
                ELSE "Unknown error"

\* C6: a response to a POST is the cleaned recipe JSON with status 200 or a
\* structured error, never both: a 200 never carries an error object.
C6_NoMixture ==
    (Done /\ method = "POST")
        => \/ response.status = 200 /\ response.error = NoField
           \/ response.status # 200 /\ response.error # NoField

\* the upstream call succeeded and its body carries no error field
UpstreamSucceeded ==
    reply.fetch = "resolved" /\ Ok(reply.status) /\ reply.error = "absent"

\* candidates[0].content.parts[0].text is absent
TextAbsent == reply.body # "object" \/ reply.textKind = "absent"

\* C7: after an upstream success without an error field, an absent text or a
\* cleaned text that is no JSON is answered "Processing Error" with status
\* 500; status 200 is returned only when the cleaned text is JSON, and the
\* body is then the cleaned text.
C7_ProcessingError ==
    (Done /\ UpstreamSucceeded)
        => /\ (TextAbsent \/ (reply.textKind = "string"
                               /\ ~JsonParses(cleanJson(reply.text))))
                => IsError(response, 500, "Processing Error")
           /\ response.status = 200
                => /\ reply.textKind = "string"
                   /\ JsonParses(cleanJson(reply.text))
                   /\ response = TextResponse(200, cleanJson(reply.text))

C7_Witness ==
    /\ Done
    /\ UpstreamSucceeded
    /\ reply.textKind = "string"
    /\ reply.text = FenceJson \o <<"[", "]">> \o Fence
    /\ response = TextResponse(200, <<"[", "]">>)

\* C8: every invocation ends by returning exactly one response: no exception
\* leaves the handler.
C8_OneResponse ==
    /\ pc # "thrown"
    /\ Ended => returned = 1 /\ response # NoResponse
    /\ ~Ended => returned = 0

\* the request passed validation: a POST, the key configured, a body that
\* parsed, ingredients that are not empty
Validated ==
    /\ method = "POST"
    /\ KeyConfigured
    /\ reqBody.kind = "object"
    /\ ~IngredientsMissing

\* C9: fetch is called at most once; in an invocation that has ended it was
\* called exactly once precisely when the request passed validation; and a
\* response is returned only after the call has settled.
C9_OneCall ==
    /\ fetchCalls <= 1
    /\ Ended => (fetchCalls = 1 <=> Validated)
    /\ (returned > 0 /\ fetchCalls > 0) => fetchState = "settled"

\* a is b with a prefix and a suffix removed
IsSlice(a, b) ==
    \E i \in 0..Len(b) : i + Len(a) <= Len(b) /\ SubSeq(b, i + 1, i + Len(a)) = a

\* C10: cleaning removes only what surrounds the text (a leading fence, a
\* trailing fence, outer white space): the characters in between are left
\* as they are, so the cleaned text is a slice of the generated text.
C10_OnlySurrounding ==
    pc = "validate" => IsSlice(cleaned, reply.text)

====
